---- MODULE Spec2Model ----
(***************************************************************************)
(* Model of the benchmark driver main() of bencharch_footer.cpp:           *)
(* command-line validation, kernel construction, warmup, timed sampling,   *)
(* sort, percentile-index computation with clamping, summation and the     *)
(* final division and print.                                               *)
(*                                                                         *)
(* Durations are counted in integer clock ticks and percentiles are the    *)
(* integer members of PctVals; for these N * p is exact in a double and    *)
(* the truncation of (N * p) / 100.0 equals the integer quotient.  The     *)
(* quotient sum / sample_size is kept as the exact fraction num/den.       *)
(***************************************************************************)
EXTENDS Integers, Sequences, FiniteSets

\* ---- bounds of the model ----
MaxN == 5            \* largest iteration count given on the command line
MaxSample == 2       \* largest clock reading, in ticks
NBITERATIONS == 3    \* build-time default iteration count (macro, line 5)
SizeBits == 4        \* width of size_t in the model (64 in the build)

\* ---- program constants ----
WarmupCount == 50

SizeMod == 2 ^ SizeBits
SIZE_MAX == SizeMod - 1

Samples == 0 .. MaxSample

\* ---- doubles: a number or NaN ----
Num(v) == [kind |-> "num", val |-> v]
NaN == [kind |-> "nan", val |-> 0]
IsNum(x) == x.kind = "num"
\* IEEE comparisons: every comparison with NaN is false
DLe(a, b) == IsNum(a) /\ IsNum(b) /\ a.val <= b.val
DGt(a, b) == IsNum(a) /\ IsNum(b) /\ a.val > b.val
DLt(a, b) == IsNum(a) /\ IsNum(b) /\ a.val < b.val
DGe(a, b) == IsNum(a) /\ IsNum(b) /\ a.val >= b.val

\* ---- the argument vector ----
\* argv[1] as strtol sees it: a value, no digits at all, or out of range
IterVals == -1 .. MaxN
IterArgs == [kind : {"int"}, val : IterVals]
              \cup {[kind |-> "nodigits", val |-> 0], [kind |-> "erange", val |-> 0]}
\* argv[2], argv[3] as strtod sees them: a value, "nan", or unparsable/overflow
PctVals == {-1, 0, 1, 5, 10, 25, 50, 75, 99, 100, 101}
PctArgs == [kind : {"num"}, val : PctVals]
              \cup {[kind |-> "nan", val |-> 0], [kind |-> "bad", val |-> 0]}
Absent == [kind |-> "absent", val |-> 0]

VARIABLES pc, argc, argv, N, upper_percentile, lower_percentile,
          d, computeCalls, i, measurements,
          lower_index, upper_index, sample_size, sum, result,
          status, out, err

vars == <<pc, argc, argv, N, upper_percentile, lower_percentile,
          d, computeCalls, i, measurements,
          lower_index, upper_index, sample_size, sum, result,
          status, out, err>>

Running == -1
SIGABRT == 134
SIGSEGV == 139

Init ==
    /\ pc = "argc"
    /\ argc \in 1 .. 5
    /\ argv \in [1 .. 3 -> IterArgs \cup PctArgs \cup {Absent}]
    /\ argv[1] \in (IF argc >= 2 THEN IterArgs ELSE {Absent})
    /\ argv[2] \in (IF argc >= 3 THEN PctArgs ELSE {Absent})
    /\ argv[3] \in (IF argc >= 4 THEN PctArgs ELSE {Absent})
    /\ N = NBITERATIONS
    /\ upper_percentile = Num(10)
    /\ lower_percentile = Num(1)
    /\ d = FALSE
    /\ computeCalls = 0
    /\ i = 0
    /\ measurements = <<>>
    /\ lower_index = 0
    /\ upper_index = 0
    /\ sample_size = 0
    /\ sum = 0
    /\ result = [num |-> 0, den |-> 1]
    /\ status = Running
    /\ out = 0
    /\ err = 0

\* return 1 after a message on the error stream
Fail ==
    /\ pc' = "exit"
    /\ status' = 1
    /\ err' = err + 1

Go(next) ==
    /\ pc' = next
    /\ UNCHANGED <<status, err>>

core == <<d, computeCalls, i, measurements, lower_index, upper_index,
          sample_size, sum, result, out>>

\* lines 9-16
CheckArgc ==
    /\ pc = "argc"
    /\ IF argc > 4 THEN Fail ELSE Go("iter")
    /\ UNCHANGED <<argc, argv, N, upper_percentile, lower_percentile, core>>

\* lines 18-34
ParseIterations ==
    /\ pc = "iter"
    /\ IF argc >= 2
         THEN IF argv[1].kind = "erange" \/ argv[1].kind = "nodigits"
                THEN Fail /\ UNCHANGED N
                ELSE Go("upper") /\ N' = argv[1].val
         ELSE Go("upper") /\ UNCHANGED N
    /\ UNCHANGED <<argc, argv, upper_percentile, lower_percentile, core>>

\* lines 36-52
ParseUpper ==
    /\ pc = "upper"
    /\ IF argc >= 3
         THEN IF argv[2].kind = "bad"
                THEN Fail /\ UNCHANGED upper_percentile
                ELSE LET val == [kind |-> argv[2].kind, val |-> argv[2].val] IN
                     IF DLe(val, Num(0)) \/ DGt(val, Num(100))
                       THEN Fail /\ UNCHANGED upper_percentile
                       ELSE Go("lower") /\ upper_percentile' = val
         ELSE Go("lower") /\ UNCHANGED upper_percentile
    /\ UNCHANGED <<argc, argv, N, lower_percentile, core>>

\* lines 54-70
ParseLower ==
    /\ pc = "lower"
    /\ IF argc >= 4
         THEN IF argv[3].kind = "bad"
                THEN Fail /\ UNCHANGED lower_percentile
                ELSE LET val == [kind |-> argv[3].kind, val |-> argv[3].val] IN
                     IF DLt(val, Num(0)) \/ DGe(val, Num(100))
                       THEN Fail /\ UNCHANGED lower_percentile
                       ELSE Go("band") /\ lower_percentile' = val
         ELSE Go("band") /\ UNCHANGED lower_percentile
    /\ UNCHANGED <<argc, argv, N, upper_percentile, core>>

\* lines 72-75
CheckBand ==
    /\ pc = "band"
    /\ IF DGe(lower_percentile, upper_percentile) THEN Fail ELSE Go("new")
    /\ UNCHANGED <<argc, argv, N, upper_percentile, lower_percentile, core>>

\* lines 77-102: construct and initialise the kernel and its buffers
CreateDSP ==
    /\ pc = "new"
    /\ d' = TRUE
    /\ i' = 0
    /\ pc' = "warmup"
    /\ UNCHANGED <<argc, argv, N, upper_percentile, lower_percentile,
                   computeCalls, measurements, lower_index, upper_index,
                   sample_size, sum, result, status, out, err>>

\* lines 105-107, one untimed invocation
WarmupCompute ==
    /\ pc = "warmup"
    /\ i < WarmupCount
    /\ computeCalls' = computeCalls + 1
    /\ i' = i + 1
    /\ UNCHANGED <<pc, argc, argv, N, upper_percentile, lower_percentile,
                   d, measurements, lower_index, upper_index,
                   sample_size, sum, result, status, out, err>>

\* lines 105, 110-111: the warmup loop ends; measurements.reserve(N).
\* A negative N converts to a size_t above max_size(): std::length_error,
\* which nothing catches.
WarmupEnd ==
    /\ pc = "warmup"
    /\ i >= WarmupCount
    /\ IF N < 0
         THEN /\ pc' = "exit"
              /\ status' = SIGABRT
              /\ UNCHANGED i
         ELSE /\ pc' = "timed"
              /\ i' = 0
              /\ UNCHANGED status
    /\ UNCHANGED <<argc, argv, N, upper_percentile, lower_percentile,
                   d, computeCalls, measurements, lower_index, upper_index,
                   sample_size, sum, result, out, err>>

\* lines 113-119, one timed invocation; the clock reading is any duration
TimedCompute ==
    /\ pc = "timed"
    /\ i < N
    /\ \E duration \in Samples :
         measurements' = Append(measurements, duration)
    /\ computeCalls' = computeCalls + 1
    /\ i' = i + 1
    /\ UNCHANGED <<pc, argc, argv, N, upper_percentile, lower_percentile,
                   d, lower_index, upper_index,
                   sample_size, sum, result, status, out, err>>

\* the timed loop stops one iteration early
TimedEndEarly ==
    /\ pc = "timed"
    /\ i >= N - 1
    /\ pc' = "sort"
    /\ UNCHANGED <<argc, argv, N, upper_percentile, lower_percentile,
                   d, computeCalls, i, measurements, lower_index, upper_index,
                   sample_size, sum, result, status, out, err>>

\* line 113, the timed loop ends
TimedEnd ==
    /\ pc = "timed"
    /\ i >= N
    /\ pc' = "sort"
    /\ UNCHANGED <<argc, argv, N, upper_percentile, lower_percentile,
                   d, computeCalls, i, measurements, lower_index, upper_index,
                   sample_size, sum, result, status, out, err>>

\* std::sort, ascending
RECURSIVE Insert(_, _)
Insert(x, s) ==
    IF s = <<>> THEN <<x>>
    ELSE IF x <= Head(s) THEN <<x>> \o s
    ELSE <<Head(s)>> \o Insert(x, Tail(s))

RECURSIVE StdSort(_)
StdSort(s) == IF s = <<>> THEN <<>> ELSE Insert(Head(s), StdSort(Tail(s)))

\* line 122
Sort ==
    /\ pc = "sort"
    /\ measurements' = StdSort(measurements)
    /\ pc' = "indices"
    /\ UNCHANGED <<argc, argv, N, upper_percentile, lower_percentile,
                   d, computeCalls, i, lower_index, upper_index,
                   sample_size, sum, result, status, out, err>>

\* lines 125-126: static_cast<size_t>((size * percentile) / 100.0).
\* Converting NaN to size_t is undefined: any size_t may result.
Truncate(size, p) == (size * p) \div 100

IndexOf(size, percentile) ==
    IF IsNum(percentile) THEN {Truncate(size, percentile.val)} ELSE 0 .. SIZE_MAX

\* clamps to size instead of size - 1
ClampUpperToSize(ui, size) ==
    IF ui >= size THEN size ELSE ui

\* line 129; size - 1 wraps when size is 0
ClampUpper(ui, size) ==
    IF ui >= size THEN (size + SizeMod - 1) % SizeMod ELSE ui

\* an empty window restarts at index 0 instead of upper_index - 1
AdjustLowerToZero(li, ui) ==
    IF li >= ui THEN 0 ELSE li

\* line 130
AdjustLower(li, ui) ==
    IF li >= ui THEN (IF ui > 0 THEN ui - 1 ELSE 0) ELSE li

\* line 133 left out
SampleSizeNoGuard(li, ui) ==
    (ui - li + SizeMod) % SizeMod

\* lines 132-133
SampleSize(li, ui) ==
    LET s == (ui - li + SizeMod) % SizeMod IN IF s < 1 THEN 1 ELSE s

\* lines 125-133 for a numeric band: the divisor the Estimator ends with
FinalSampleSize(size, lower, upper) ==
    LET ui == ClampUpper(Truncate(size, upper), size)
        li == AdjustLower(Truncate(size, lower), ui)
    IN SampleSize(li, ui)

\* lines 125-133
ComputeIndices ==
    /\ pc = "indices"
    /\ \E li \in IndexOf(Len(measurements), lower_percentile),
          ui \in IndexOf(Len(measurements), upper_percentile) :
         LET upper == ClampUpper(ui, Len(measurements))
             lower == AdjustLower(li, upper)
         IN /\ upper_index' = upper
            /\ lower_index' = lower
            /\ sample_size' = SampleSize(lower, upper)
    /\ sum' = 0
    /\ i' = lower_index'
    /\ pc' = "sum"
    /\ UNCHANGED <<argc, argv, N, upper_percentile, lower_percentile,
                   d, computeCalls, measurements, result, status, out, err>>

\* lines 137-139, one iteration.  measurements[i] is unchecked: reading at or
\* beyond size() is undefined, the process is killed or some value is read.
SumStep ==
    /\ pc = "sum"
    /\ i < upper_index
    /\ IF i < Len(measurements)
         THEN /\ sum' = sum + measurements[i + 1]
              /\ i' = i + 1
              /\ UNCHANGED <<pc, status>>
         ELSE \/ /\ pc' = "exit"
                 /\ status' = SIGSEGV
                 /\ UNCHANGED <<sum, i>>
              \/ /\ \E garbage \in Samples : sum' = sum + garbage
                 /\ i' = i + 1
                 /\ UNCHANGED <<pc, status>>
    /\ UNCHANGED <<argc, argv, N, upper_percentile, lower_percentile,
                   d, computeCalls, measurements, lower_index, upper_index,
                   sample_size, result, out, err>>

\* lines 137, 140-154: the loop ends, the quotient is printed, return 0
SumEnd ==
    /\ pc = "sum"
    /\ i >= upper_index
    /\ result' = [num |-> sum, den |-> sample_size]
    /\ out' = out + 1
    /\ d' = FALSE
    /\ status' = 0
    /\ pc' = "exit"
    /\ UNCHANGED <<argc, argv, N, upper_percentile, lower_percentile,
                   computeCalls, i, measurements, lower_index, upper_index,
                   sample_size, sum, err>>

Next ==
    \/ CheckArgc
    \/ ParseIterations
    \/ ParseUpper
    \/ ParseLower
    \/ CheckBand
    \/ CreateDSP
    \/ WarmupCompute
    \/ WarmupEnd
    \/ TimedCompute
    \/ TimedEnd
    \/ Sort
    \/ ComputeIndices
    \/ SumStep
    \/ SumEnd

Spec == Init /\ [][Next]_vars

TypeOK ==
    /\ pc \in {"argc", "iter", "upper", "lower", "band", "new", "warmup",
               "timed", "sort", "indices", "sum", "exit"}
    /\ status \in {Running, 0, 1, SIGABRT, SIGSEGV}
    /\ lower_index \in 0 .. SIZE_MAX
    /\ upper_index \in 0 .. SIZE_MAX
    /\ sample_size \in 0 .. SIZE_MAX

\* ---- vocabulary of the claims ----

\* a percentile band as the Estimator's contract states it
ValidBand ==
    /\ IsNum(lower_percentile)
    /\ IsNum(upper_percentile)
    /\ 0 <= lower_percentile.val
    /\ lower_percentile.val < upper_percentile.val
    /\ upper_percentile.val < 100

Finished == pc = "exit" /\ status = 0

RECURSIVE SumOf(_, _, _)
SumOf(s, from, to) == IF from >= to THEN 0 ELSE s[from + 1] + SumOf(s, from + 1, to)

MinOf(s) == CHOOSE x \in {s[k] : k \in 1 .. Len(s)} : \A k \in 1 .. Len(s) : x <= s[k]
MaxOf(s) == CHOOSE x \in {s[k] : k \in 1 .. Len(s)} : \A k \in 1 .. Len(s) : x >= s[k]

\* C1: with N >= 1 and a band 0 <= lower < upper < 100, every read
\* measurements[i] of the summation loop has i < N and the divisor
\* sample_size is not zero.
C1_NoOutOfRangeNoDivZero ==
    (pc = "sum" /\ N >= 1 /\ ValidBand) =>
        /\ Len(measurements) = N
        /\ lower_index < N
        /\ (i < upper_index => i < N)
        /\ sample_size # 0

C1_Witness ==
    /\ Finished
    /\ N >= 2
    /\ ValidBand
    /\ i > lower_index
    /\ result.den = sample_size

\* C2: with N >= 1 samples and a valid band, the printed result lies within
\* [min(samples), max(samples)].
C2_ResultWithinRange ==
    (Finished /\ N >= 1 /\ ValidBand) =>
        /\ MinOf(measurements) * result.den <= result.num
        /\ result.num <= MaxOf(measurements) * result.den

\* C3: when floor(N * upper / 100) is 0 the Estimator gives lowerIndex 0,
\* sampleSize 1 and the first sorted sample as result.
C3_SingleSampleEstimate ==
    (Finished /\ N >= 1 /\ ValidBand
       /\ Truncate(N, upper_percentile.val) = 0) =>
        /\ lower_index = 0
        /\ sample_size = 1
        /\ result.num = measurements[1] * result.den

\* C4: an iteration count below 1 is rejected with exit status 1 before the
\* core runs: kernel, warmup, timed loop and Estimator never see N < 1.
C4_CoreNeverEnteredBelowOne ==
    /\ (d \/ computeCalls > 0
          \/ pc \in {"warmup", "timed", "sort", "indices", "sum"}) => N >= 1
    /\ (pc = "exit" /\ argc \in 2 .. 4 /\ argv[1].kind = "int" /\ argv[1].val < 1)
          => (status = 1 /\ err > 0)

\* the percentiles a vector asks for, defaults applied
AskedUpper == IF argc >= 3 THEN argv[2] ELSE Num(10)
AskedLower == IF argc >= 4 THEN argv[3] ELSE Num(1)
Parsed(a) == a.kind \in {"num", "nan"}
InUpperRange(a) == IsNum(a) /\ 0 < a.val /\ a.val <= 100
InLowerRange(a) == IsNum(a) /\ 0 <= a.val /\ a.val < 100

RejectedVector ==
    \/ argc > 4
    \/ Parsed(AskedUpper) /\ ~InUpperRange(AskedUpper)
    \/ Parsed(AskedLower) /\ ~InLowerRange(AskedLower)
    \/ InUpperRange(AskedUpper) /\ InLowerRange(AskedLower)
         /\ AskedLower.val >= AskedUpper.val

AcceptedVector ==
    /\ argc <= 4
    /\ argc >= 2 => argv[1].kind = "int"
    /\ InUpperRange(AskedUpper)
    /\ InLowerRange(AskedLower)
    /\ AskedLower.val < AskedUpper.val

\* C5: a vector with more than three positional arguments, an upper
\* percentile outside (0,100], a lower percentile outside [0,100), or
\* lower >= upper exits with status 1 before the kernel is constructed or
\* invoked and writes nothing to standard output; a vector with in-range
\* percentiles and lower < upper proceeds to the core.
C5_BadVectorsRejected ==
    /\ RejectedVector =>
          /\ ~d
          /\ computeCalls = 0
          /\ out = 0
          /\ pc \notin {"new", "warmup", "timed", "sort", "indices", "sum"}
          /\ (pc = "exit" => status = 1)
    /\ (AcceptedVector /\ pc = "exit") => computeCalls > 0

\* C6: once validation has passed the run ends with all 50 + N invocations
\* done, exactly one line on standard output and exit status 0.
C6_ValidatedRunPrintsAndReturnsZero ==
    (pc = "exit" /\ status # 1) =>
        /\ status = 0
        /\ out = 1
        /\ computeCalls = WarmupCount + N

C7_State ==
    /\ pc = "warmup" => (computeCalls = i /\ i <= 50 /\ measurements = <<>>)
    /\ pc = "timed" => (computeCalls = 50 + i /\ Len(measurements) = i /\ i <= N)
    /\ pc \in {"sort", "indices", "sum"} =>
          (computeCalls = 50 + N /\ Len(measurements) = N)
    /\ Finished => (computeCalls = 50 + N /\ Len(measurements) = N)
    /\ pc \in {"argc", "iter", "upper", "lower", "band", "new"} =>
          (computeCalls = 0 /\ measurements = <<>>)

C7_Step ==
    /\ (computeCalls' # computeCalls) =>
          /\ computeCalls' = computeCalls + 1
          /\ IF computeCalls < 50
               THEN measurements' = measurements
               ELSE \E x \in Samples : measurements' = Append(measurements, x)
    /\ (pc = "sort" /\ pc' # "sort") =>
          /\ Len(measurements) = N
          /\ computeCalls = 50 + N
          /\ measurements' = StdSort(measurements)
    /\ (pc # "sort" /\ computeCalls' = computeCalls) => measurements' = measurements

\* C7: the 50 untimed warmup invocations all precede the first timed one;
\* each timed invocation appends exactly one sample at the end; when the
\* Estimator starts the kernel has run 50 + N times and there are N
\* samples; the sort happens only after the last timed invocation.
C7_WarmupThenNTimedThenSort == [](C7_State) /\ [][C7_Step]_vars

C7_Witness ==
    /\ pc = "indices"
    /\ N >= 2
    /\ computeCalls = 50 + N
    /\ Len(measurements) = N

\* C8: for N >= 1, a valid band that widens the current valid band
\* (lower no larger, upper no smaller) never ends with a smaller sampleSize.
C8_WideningNeverShrinksSampleSize ==
    (pc = "sum" /\ N >= 1 /\ ValidBand) =>
        \A l2 \in PctVals, u2 \in PctVals :
            (0 <= l2 /\ l2 < u2 /\ u2 < 100
               /\ l2 <= lower_percentile.val /\ u2 >= upper_percentile.val)
            => FinalSampleSize(N, l2, u2) >= sample_size

C8_Witness ==
    /\ pc = "sum"
    /\ N >= 1
    /\ ValidBand
    /\ sample_size >= 2
    /\ \E l2 \in PctVals, u2 \in PctVals :
          /\ 0 <= l2 /\ l2 < u2 /\ u2 < 100
          /\ l2 < lower_percentile.val /\ u2 > upper_percentile.val
          /\ FinalSampleSize(N, l2, u2) > sample_size

\* C9: the result is the arithmetic mean of the ascending-sorted samples at
\* indices lowerIndex .. upperIndex-1 (floor(N*p/100) after clamping), and
\* the divisor sampleSize is the number of samples summed.
C9_MeanOfWindow ==
    (Finished /\ N >= 1 /\ ValidBand) =>
        /\ \A k \in 1 .. Len(measurements) - 1 : measurements[k] <= measurements[k + 1]
        /\ upper_index = ClampUpper(Truncate(N, upper_percentile.val), N)
        /\ lower_index = AdjustLower(Truncate(N, lower_percentile.val), upper_index)
        /\ result.num = SumOf(measurements, lower_index, upper_index)
        /\ result.den = upper_index - lower_index

\* C10: for N >= 2 and every band validation lets through, upper_index is at
\* most N-1, the loop reads no index above N-2, and at most N-1 samples
\* are summed.
C10_LargestSampleNeverSummed ==
    (pc = "sum" /\ N >= 2) =>
        /\ upper_index <= N - 1
        /\ lower_index <= upper_index
        /\ (i < upper_index => i <= N - 2)
        /\ upper_index - lower_index <= N - 1

C10_Witness ==
    /\ pc = "sum"
    /\ N >= 2
    /\ upper_percentile = Num(100)
    /\ upper_index = N - 1
    /\ i = N - 2
    /\ i < upper_index
====
